---- MODULE Spec2Model ----
(***************************************************************************)
(* Model of the load balancer of src/lb/main.go: the backend pool with its *)
(* rotation cursor, the retrying request dispatcher (ServeHTTP), the       *)
(* failure-counting circuit breaker (noteFailure and its cooldown          *)
(* goroutine) and the health monitor (StartHealthChecks, check).           *)
(*                                                                         *)
(* Every goroutine is split at the points where it blocks or where it      *)
(* touches state shared with other goroutines: a request handler at every  *)
(* read of a backend's Alive flag inside nextAliveBackend (lb.mu is taken  *)
(* with the first read and held until the call returns) and at the forward *)
(* call; a health probe at its HTTP GET; a cooldown goroutine at its       *)
(* sleep.  Critical sections of a backend's own mutex contain no blocking  *)
(* call and are single steps.                                              *)
(***************************************************************************)
EXTENDS Integers, Sequences, FiniteSets, TLC

\* ---------------------------------------------------------------- constants

\* len(lb.Backends): the default BACKENDS list names three targets.
N == 3
\* lb.MaxConsecFail
MaxConsecFail == 3
\* lb.MaxRetries
MaxRetries == 2
\* rec := &statusRecorder{ResponseWriter: w, code: 200}
StatusOK == 200
\* http.StatusServiceUnavailable
StatusServiceUnavailable == 503

\* ------------------------------------------------------------------- bounds

\* request goroutines that can be inside ServeHTTP at the same time
NumHandlers == 2
\* requests accepted over a run
MaxRequests == 3
\* rounds of N requests in the runs without failures
MaxRounds == 2
\* ticks of the health ticker over a run
MaxTicks == 1
\* requests accepted over a run in which they arrive one after the other
MaxSerial == 6
\* ticks of the health ticker over a run of the health monitor alone
MaxProbeTicks == 2

Pool == 0 .. (N - 1)
Handlers == 1 .. NumHandlers

\* What one forward through the reverse proxy can do, as ServeHTTP sees it:
\* whether ctx.Err() is DeadlineExceeded afterwards (dl) and the status the proxy
\* wrote with WriteHeader (code).  The proxy's error handler writes 502 when the
\* round trip fails: connection refused or reset, or the deadline passing before
\* a response header arrived.
Outcomes ==
  { [dl |-> FALSE, code |-> 200],   \* upstream answered, below 500
    [dl |-> FALSE, code |-> 502],   \* upstream 5xx, or connection failure
    [dl |-> TRUE,  code |-> 502] }  \* deadline exceeded before the header

\* The deadline passes after the upstream's status was written (and before
\* cancel() is called).
LateDeadline == [dl |-> TRUE, code |-> 200]

VARIABLES
  Backends,         \* Backends[b] = [Alive, ConsecFailures] of lb.Backends[b]
  current,          \* lb.current, the rotation cursor
  mu,               \* lb.mu: 0 when free, else the handler holding it
  cooldown,         \* cooldown[b]: cooldown goroutines of b still sleeping
  probes,           \* probes[b]: check(b) goroutines waiting for their GET
  ticks,            \* ticks of the health ticker so far
  started,          \* requests accepted so far
  pc,               \* pc[h]: where handler h is in ServeHTTP
  attempt,          \* attempt[h]: the loop variable of ServeHTTP
  tried,            \* tried[h]: the indices in the tried map
  idx,              \* idx[h]: index returned by nextAliveBackend (-1: none)
  i,                \* i[h]: the loop variable of nextAliveBackend
  rec,              \* rec[h]: statusRecorder.code
  w,                \* w[h]: status committed to the client (0: none yet)
  lastErr,          \* lastErr[h]: lastErr != nil
  forwards,         \* forwards[h]: forward calls made for this request
  lbAttemptsTotal,  \* lbAttemptsTotal[b]: lb_backend_attempts_total{backend=b}
  okBetween,        \* okBetween[b]: history of the run, not program state: a
                    \* dispatch to b succeeded after a dispatch failure that
                    \* b's ConsecFailures still counts
  bmu,              \* bmu[b]: Backends[b].mu, a sync.RWMutex: whether it is
                    \* write-locked and how many read locks are held
  bg,               \* bg[b][s]: check and cooldown goroutines of backend b
                    \* that are at stage s of their work on Backends[b].mu
  reason            \* reason[h]: the reason label of the last increment of
                    \* lbFailuresTotal made for the request of h ("": none)

shared == <<Backends, current, mu, cooldown, probes, ticks, started, lbAttemptsTotal>>
local == <<pc, attempt, tried, idx, i, rec, w, lastErr, forwards, reason>>
vars == <<Backends, current, mu, cooldown, probes, ticks, started,
          pc, attempt, tried, idx, i, rec, w, lastErr, forwards, lbAttemptsTotal,
          okBetween, bmu, bg, reason>>
locks == <<bmu, bg>>

\* ------------------------------------------------------------------ Backend

\* The stages at which a goroutine started by check or by noteFailure holds a
\* lock of its backend or waits for one: a check that read a healthy answer
\* holds the read lock (IsAlive), then waits for the write lock of
\* SetAlive(true), then holds it; a check that read an unhealthy answer holds
\* the write lock of SetAlive(false); a cooldown goroutine that woke up holds
\* the write lock.
Stages == {"isAlive", "wantSetAlive", "setAliveTrue", "setAliveFalse", "cooldownOver"}

\* sync.RWMutex, zero value
Unlocked == [writer |-> FALSE, readers |-> 0]

\* RWMutex.RLock returns when no writer holds the lock; RWMutex.Lock when
\* nobody holds it.
canRLock(l) == ~l.writer
canLock(l) == ~l.writer /\ l.readers = 0

RLock(l) == [l EXCEPT !.readers = @ + 1]
Lock(l) == [l EXCEPT !.writer = TRUE]
Unlock(l) == [l EXCEPT !.writer = FALSE]

\* An IsAlive without its deferred RUnlock.
RUnlock_missing(l) == l

\* RWMutex.RUnlock
RUnlock(l) == [l EXCEPT !.readers = @ - 1]

\* NewLoadBalancer: b := &Backend{URL: u, Alive: true, ...}
NewBackend == [Alive |-> TRUE, ConsecFailures |-> 0]

\* SetAlive without the reset of the counter.
SetAlive_keepsCount(bk, alive) ==
  [Alive |-> alive, ConsecFailures |-> bk.ConsecFailures]

\* SetAlive resetting the counter whatever the flag.
SetAlive_resetsAlways(bk, alive) ==
  [Alive |-> alive, ConsecFailures |-> 0]

\* Backend.SetAlive
SetAlive(bk, alive) ==
  [Alive |-> alive,
   ConsecFailures |-> IF alive THEN 0 ELSE bk.ConsecFailures]

\* IsAlive that goes by the failure counter instead of the flag.
IsAlive_byCounter(bk) == bk.ConsecFailures < MaxConsecFail

\* IsAlive that does not look at the flag.
IsAlive_always(bk) == TRUE

\* Backend.IsAlive
IsAlive(bk) == bk.Alive

\* ---------------------------------------------------------- circuit breaker

\* A trip condition that is off by one (> instead of >=).
breakerTrips_offByOne(bk) ==
  bk.ConsecFailures + 1 > MaxConsecFail /\ bk.Alive

\* A trip condition that does not look at the Alive flag.
breakerTrips_whateverAlive(bk) ==
  bk.ConsecFailures + 1 >= MaxConsecFail

\* The condition under which noteFailure marks the backend down and starts a
\* cooldown goroutine, evaluated after the increment.
breakerTrips(bk) ==
  bk.ConsecFailures + 1 >= MaxConsecFail /\ bk.Alive

\* noteFailure that counts the failure and starts the cooldown but leaves the
\* backend in rotation.
noteFailure_staysAlive(bk) ==
  [Alive |-> bk.Alive, ConsecFailures |-> bk.ConsecFailures + 1]

\* noteFailure: the backend's fields when the critical section is left.
noteFailure(bk) ==
  [Alive |-> IF breakerTrips(bk) THEN FALSE ELSE bk.Alive,
   ConsecFailures |-> bk.ConsecFailures + 1]

\* A cooldown goroutine that resets the counter but leaves the backend down.
cooldownOver_staysDown(bk) == [Alive |-> FALSE, ConsecFailures |-> 0]

\* A cooldown goroutine that re-admits the backend without resetting its counter.
cooldownOver_keepsCount(bk) ==
  [Alive |-> TRUE, ConsecFailures |-> bk.ConsecFailures]

\* The body of the cooldown goroutine after its sleep.
cooldownOver(bk) == [Alive |-> TRUE, ConsecFailures |-> 0]

\* --------------------------------------------------------------- dispatcher

\* statusRecorder.WriteHeader passes the code on to the client's
\* ResponseWriter, which commits the first status it is given and ignores
\* every later WriteHeader of the same response.
WriteHeader(committed, code) == IF committed = 0 THEN code ELSE committed

\* A cursor that stops at the last index instead of wrapping around.
advance_noWrap(c) == IF c + 1 < N THEN c + 1 ELSE c

\* nextAliveBackend: lb.current = (lb.current + 1) % n
advance(c) == (c + 1) % N

\* A dispatcher that never consults the tried map.
alreadyTried_never(t, c) == FALSE

\* ServeHTTP: if tried[idx] { continue }
alreadyTried(t, c) == c \in t

\* A retry test that looks at the recorded status only.
retryable_statusOnly(dl, code) == code >= 500

\* The retry test of ServeHTTP: ctx.Err() == DeadlineExceeded || rec.code >= 500
retryable(dl, code) == dl \/ code >= 500

\* ServeHTTP, in the retry branch: reason := "timeout"; if rec.code >= 500
\* { reason = "5xx" }
failureReason(dl, code) == IF code >= 500 THEN "5xx" ELSE "timeout"

\* A dispatcher without the http.Error call after the loop.
finalStatus_noError(committed, err) == WriteHeader(committed, StatusOK)

\* The status the client has once ServeHTTP returns: http.Error writes 503 when
\* lastErr is set, and a response nothing was written to goes out as 200.
finalStatus(committed, err) ==
  IF err THEN WriteHeader(committed, StatusServiceUnavailable)
         ELSE WriteHeader(committed, StatusOK)

\* ---------------------------------------------------------------------- Init

Init ==
  /\ Backends = [b \in Pool |-> NewBackend]
  /\ current = 0
  /\ mu = 0
  /\ cooldown = [b \in Pool |-> 0]
  /\ probes = [b \in Pool |-> 0]
  /\ ticks = 0
  /\ started = 0
  /\ pc = [h \in Handlers |-> "idle"]
  /\ attempt = [h \in Handlers |-> 0]
  /\ tried = [h \in Handlers |-> {}]
  /\ idx = [h \in Handlers |-> -1]
  /\ i = [h \in Handlers |-> 0]
  /\ rec = [h \in Handlers |-> StatusOK]
  /\ w = [h \in Handlers |-> 0]
  /\ lastErr = [h \in Handlers |-> FALSE]
  /\ forwards = [h \in Handlers |-> 0]
  /\ lbAttemptsTotal = [b \in Pool |-> 0]
  /\ okBetween = [b \in Pool |-> FALSE]
  /\ bmu = [b \in Pool |-> Unlocked]
  /\ bg = [b \in Pool |-> [s \in Stages |-> 0]]
  /\ reason = [h \in Handlers |-> ""]

\* ------------------------------------------------------------------ actions

\* A handler goroutine that is not inside ServeHTTP; a new request is given to
\* the lowest-numbered one (the goroutines are interchangeable).
free(h) == pc[h] \in {"idle", "done"}

\* ServeHTTP is entered: rec, lastErr, tried and attempt are initialised and
\* the first iteration of the loop goes on to call nextAliveBackend.
AcceptUpTo(h, max) ==
  /\ free(h)
  /\ \A g \in Handlers : g < h => ~free(g)
  /\ started < max
  /\ started' = started + 1
  /\ pc' = [pc EXCEPT ![h] = "select"]
  /\ attempt' = [attempt EXCEPT ![h] = 0]
  /\ tried' = [tried EXCEPT ![h] = {}]
  /\ rec' = [rec EXCEPT ![h] = StatusOK]
  /\ w' = [w EXCEPT ![h] = 0]
  /\ lastErr' = [lastErr EXCEPT ![h] = FALSE]
  /\ forwards' = [forwards EXCEPT ![h] = 0]
  /\ reason' = [reason EXCEPT ![h] = ""]
  /\ UNCHANGED <<idx, i>>
  /\ UNCHANGED <<Backends, current, mu, cooldown, probes, ticks, lbAttemptsTotal>>
  /\ UNCHANGED okBetween
  /\ UNCHANGED locks

Accept(h) == AcceptUpTo(h, MaxRequests)

\* The code after the loop of ServeHTTP, and its return: the locals of the loop
\* are gone, the client has its status.
Return(h, committed, err) ==
  /\ pc' = [pc EXCEPT ![h] = "done"]
  /\ attempt' = [attempt EXCEPT ![h] = 0]
  /\ w' = [w EXCEPT ![h] = finalStatus(committed, err)]

\* A continue that goes back to the selection without attempt++.
Continue_sameAttempt(h, committed) ==
  /\ pc' = [pc EXCEPT ![h] = "select"]
  /\ attempt' = attempt
  /\ w' = [w EXCEPT ![h] = committed]

\* A loop test that lets one iteration too many through (attempt <= MaxRetries+1).
Continue_oneMore(h, committed) ==
  IF attempt[h] + 1 <= MaxRetries + 1
    THEN /\ pc' = [pc EXCEPT ![h] = "select"]
         /\ attempt' = [attempt EXCEPT ![h] = @ + 1]
         /\ w' = [w EXCEPT ![h] = committed]
    ELSE Return(h, committed, lastErr[h])

\* The loop of ServeHTTP leaves an iteration by continue: attempt++ and the loop
\* test; past the budget the code after the loop runs.
Continue(h, committed) ==
  IF attempt[h] + 1 <= MaxRetries
    THEN /\ pc' = [pc EXCEPT ![h] = "select"]
         /\ attempt' = [attempt EXCEPT ![h] = @ + 1]
         /\ w' = [w EXCEPT ![h] = committed]
    ELSE Return(h, committed, lastErr[h])

\* A nextAliveBackend that does not take lb.mu.
scanning_noLock(h) == pc[h] \in {"scan", "select"}

\* Handler h is at an iteration of the loop of nextAliveBackend: either it
\* holds lb.mu and is inside the loop, or it is about to call the function and
\* lb.mu is free, in which case lb.mu.Lock() and the first iteration are one
\* step.
scanning(h) ==
  \/ pc[h] = "scan" /\ mu = h
  \/ pc[h] = "select" /\ mu = 0

\* One iteration of the loop of nextAliveBackend in which the backend under the
\* advanced cursor is alive: it is returned, lb.mu is released, and ServeHTTP
\* either skips it (already tried) or marks it tried, counts the attempt and
\* starts forwarding.
ScanHit(h) ==
  LET c == advance(current) IN
  /\ scanning(h)
  /\ i[h] < N
  /\ IsAlive(Backends[c])
  /\ current' = c
  /\ mu' = 0
  /\ i' = [i EXCEPT ![h] = 0]
  /\ IF alreadyTried(tried[h], c)
       THEN /\ Continue(h, w[h])
            /\ UNCHANGED <<tried, forwards, lbAttemptsTotal, idx>>
       ELSE /\ tried' = [tried EXCEPT ![h] = @ \cup {c}]
            /\ lbAttemptsTotal' = [lbAttemptsTotal EXCEPT ![c] = @ + 1]
            /\ forwards' = [forwards EXCEPT ![h] = @ + 1]
            /\ idx' = [idx EXCEPT ![h] = c]
            /\ pc' = [pc EXCEPT ![h] = "forward"]
            /\ UNCHANGED <<attempt, w>>
  /\ UNCHANGED <<Backends, cooldown, probes, ticks, started, rec, lastErr, reason>>
  /\ UNCHANGED okBetween
  /\ UNCHANGED locks

\* One iteration of the loop of nextAliveBackend in which the backend under the
\* advanced cursor is not alive.  After the N-th such iteration the function
\* returns (nil, -1, error), lb.mu is released, and ServeHTTP sets lastErr,
\* breaks out of its loop and runs the code after it.
ScanMiss(h) ==
  LET c == advance(current) IN
  /\ scanning(h)
  /\ i[h] < N
  /\ ~IsAlive(Backends[c])
  /\ current' = c
  /\ IF i[h] + 1 < N
       THEN /\ mu' = h
            /\ i' = [i EXCEPT ![h] = @ + 1]
            /\ pc' = [pc EXCEPT ![h] = "scan"]
            /\ UNCHANGED <<lastErr, w, attempt, idx>>
       ELSE /\ mu' = 0
            /\ i' = [i EXCEPT ![h] = 0]
            /\ idx' = [idx EXCEPT ![h] = -1]
            /\ lastErr' = [lastErr EXCEPT ![h] = TRUE]
            /\ Return(h, w[h], TRUE)
  /\ UNCHANGED <<Backends, cooldown, probes, ticks, started, lbAttemptsTotal,
                 tried, rec, forwards, okBetween, reason>>
  /\ UNCHANGED locks

\* b.ReverseProxy.ServeHTTP(rec, r2) returns with outcome o, and ServeHTTP
\* classifies it: a retryable outcome is reported to noteFailure, which may
\* trip the breaker and start a cooldown goroutine, and the loop continues;
\* any other outcome ends the loop.
Forward(h, o) ==
  LET b == idx[h]
      committed == WriteHeader(w[h], o.code) IN
  /\ pc[h] = "forward"
  /\ rec' = [rec EXCEPT ![h] = o.code]
  /\ idx' = [idx EXCEPT ![h] = -1]
  /\ IF retryable(o.dl, o.code)
       THEN /\ reason' = [reason EXCEPT ![h] = failureReason(o.dl, o.code)]
            /\ Backends' = [Backends EXCEPT ![b] = noteFailure(@)]
            /\ cooldown' = [cooldown EXCEPT ![b] =
                              IF breakerTrips(Backends[b]) THEN @ + 1 ELSE @]
            /\ Continue(h, committed)
            /\ UNCHANGED okBetween
       ELSE /\ Return(h, committed, lastErr[h])
            /\ okBetween' = [okBetween EXCEPT ![b] = @ \/ Backends[b].ConsecFailures > 0]
            /\ UNCHANGED <<Backends, cooldown, reason>>
  /\ UNCHANGED <<current, mu, probes, ticks, started, lbAttemptsTotal,
                 tried, i, lastErr, forwards>>
  /\ UNCHANGED locks

\* A cooldown goroutine wakes up from time.Sleep(lb.BreakerCooldown).
Cooldown(b) ==
  /\ cooldown[b] > 0
  /\ cooldown' = [cooldown EXCEPT ![b] = @ - 1]
  /\ Backends' = [Backends EXCEPT ![b] = cooldownOver(@)]
  /\ okBetween' = [okBetween EXCEPT ![b] = FALSE]
  /\ UNCHANGED <<current, mu, probes, ticks, started, lbAttemptsTotal>>
  /\ UNCHANGED local
  /\ UNCHANGED locks

\* StartHealthChecks: the ticker fires and a check goroutine is started for
\* every backend, whatever probes are still in flight.
TickUpTo(max) ==
  /\ ticks < max
  /\ ticks' = ticks + 1
  /\ probes' = [b \in Pool |-> probes[b] + 1]
  /\ UNCHANGED <<Backends, current, mu, cooldown, started, lbAttemptsTotal>>
  /\ UNCHANGED okBetween
  /\ UNCHANGED local
  /\ UNCHANGED locks

Tick == TickUpTo(MaxTicks)

\* check(b): the GET returns; healthy is (err == nil && StatusCode == 200).
Check(b, healthy) ==
  /\ probes[b] > 0
  /\ probes' = [probes EXCEPT ![b] = @ - 1]
  /\ Backends' = [Backends EXCEPT ![b] = SetAlive(@, healthy)]
  /\ okBetween' = [okBetween EXCEPT ![b] = @ /\ ~healthy]
  /\ UNCHANGED <<current, mu, cooldown, ticks, started, lbAttemptsTotal>>
  /\ UNCHANGED local
  /\ UNCHANGED locks

Next ==
  \/ \E h \in Handlers : Accept(h)
  \/ \E h \in Handlers : ScanHit(h)
  \/ \E h \in Handlers : ScanMiss(h)
  \/ \E h \in Handlers, o \in Outcomes : Forward(h, o)
  \/ \E b \in Pool : Cooldown(b)
  \/ Tick
  \/ \E b \in Pool, healthy \in BOOLEAN : Check(b, healthy)

Spec == Init /\ [][Next]_vars

\* Runs in which every backend stays alive and no attempt fails: every forward
\* succeeds and every health probe finds its backend healthy.
Succeeds == [dl |-> FALSE, code |-> 200]

NextRR ==
  \/ \E h \in Handlers : AcceptUpTo(h, MaxRounds * N)
  \/ \E h \in Handlers : ScanHit(h)
  \/ \E h \in Handlers : Forward(h, Succeeds)
  \/ Tick
  \/ \E b \in Pool : Check(b, TRUE)

SpecRR == Init /\ [][NextRR]_vars

\* Runs without the health monitor, the requests arriving one after the other,
\* in which a forward can also end with the deadline exceeded after a status
\* below 500 was written.
NextLate ==
  \/ AcceptUpTo(1, MaxSerial)
  \/ ScanHit(1)
  \/ ScanMiss(1)
  \/ \E o \in Outcomes \cup {LateDeadline} : Forward(1, o)
  \/ \E b \in Pool : Cooldown(b)

SpecLate == Init /\ [][NextLate]_vars

\* Runs in which the requests arrive one after the other, up to MaxSerial of
\* them, all served by the first handler goroutine.
NextSerial ==
  \/ AcceptUpTo(1, MaxSerial)
  \/ ScanHit(1)
  \/ ScanMiss(1)
  \/ \E o \in Outcomes : Forward(1, o)
  \/ \E b \in Pool : Cooldown(b)
  \/ Tick
  \/ \E b \in Pool, healthy \in BOOLEAN : Check(b, healthy)

SpecSerial == Init /\ [][NextSerial]_vars

\* Runs in which every health probe fails.
NextProbesFail ==
  \/ \E h \in Handlers : Accept(h)
  \/ \E h \in Handlers : ScanHit(h)
  \/ \E h \in Handlers : ScanMiss(h)
  \/ \E h \in Handlers, o \in Outcomes : Forward(h, o)
  \/ \E b \in Pool : Cooldown(b)
  \/ Tick
  \/ \E b \in Pool : Check(b, FALSE)

\* The scheduling of a request: a forward returns by its per-attempt timeout
\* (context.WithTimeout), and a goroutine that calls nextAliveBackend gets lb.mu
\* (sync.Mutex hands the lock over to a waiter that would starve) and goes on
\* with its scan while it holds it.
RequestsProceed ==
  /\ \A h \in Handlers : WF_vars(\E o \in Outcomes : Forward(h, o))
  /\ \A h \in Handlers : SF_vars(ScanHit(h) \/ ScanMiss(h))

\* The scheduling of a cooldown goroutine: it wakes up from its sleep.
TimersFire == \A b \in Pool : WF_vars(Cooldown(b))

SpecServe == Init /\ [][NextProbesFail]_vars /\ RequestsProceed

SpecTimers == Init /\ [][NextProbesFail]_vars /\ TimersFire

\* Runs of the health monitor alone, no request arriving.
NextMonitor ==
  \/ TickUpTo(MaxProbeTicks)
  \/ \E b \in Pool, healthy \in BOOLEAN : Check(b, healthy)

SpecMonitor == Init /\ [][NextMonitor]_vars

\* ------------------------------------------------- the same runs, lock by lock

\* In the actions above a critical section of Backends[b].mu is part of one
\* step.  The actions below take the same code one lock operation at a time: a
\* goroutine that is about to acquire a lock waits until it can, and holds the
\* lock until the step in which it releases it.

\* nextAliveBackend: lb.mu.Lock()
LockPool(h) ==
  /\ pc[h] = "select"
  /\ mu = 0
  /\ mu' = h
  /\ pc' = [pc EXCEPT ![h] = "scan"]
  /\ UNCHANGED <<Backends, current, cooldown, probes, ticks, started,
                 lbAttemptsTotal, okBetween, locks>>
  /\ UNCHANGED <<attempt, tried, idx, i, rec, w, lastErr, forwards, reason>>

\* nextAliveBackend, holding lb.mu: the cursor is advanced and b.IsAlive() takes
\* the read lock of the backend under it.
IsAliveRLock(h) ==
  LET c == advance(current) IN
  /\ pc[h] = "scan" /\ mu = h
  /\ i[h] < N
  /\ canRLock(bmu[c])
  /\ current' = c
  /\ bmu' = [bmu EXCEPT ![c] = RLock(@)]
  /\ pc' = [pc EXCEPT ![h] = "read"]
  /\ UNCHANGED <<Backends, mu, cooldown, probes, ticks, started,
                 lbAttemptsTotal, okBetween, bg>>
  /\ UNCHANGED <<attempt, tried, idx, i, rec, w, lastErr, forwards, reason>>

\* nextAliveBackend, holding lb.mu and the read lock: b.IsAlive() reads the flag
\* and releases the read lock.  An alive backend is returned (lb.mu released)
\* and ServeHTTP skips it or starts forwarding to it; otherwise the loop goes
\* on, and after the N-th iteration the call fails and ServeHTTP returns.
IsAliveReturns(h) ==
  LET c == current IN
  /\ pc[h] = "read" /\ mu = h
  /\ bmu' = [bmu EXCEPT ![c] = RUnlock(@)]
  /\ IF IsAlive(Backends[c])
       THEN /\ mu' = 0
            /\ i' = [i EXCEPT ![h] = 0]
            /\ UNCHANGED lastErr
            /\ IF alreadyTried(tried[h], c)
                 THEN /\ Continue(h, w[h])
                      /\ UNCHANGED <<tried, forwards, lbAttemptsTotal, idx>>
                 ELSE /\ tried' = [tried EXCEPT ![h] = @ \cup {c}]
                      /\ lbAttemptsTotal' = [lbAttemptsTotal EXCEPT ![c] = @ + 1]
                      /\ forwards' = [forwards EXCEPT ![h] = @ + 1]
                      /\ idx' = [idx EXCEPT ![h] = c]
                      /\ pc' = [pc EXCEPT ![h] = "forward"]
                      /\ UNCHANGED <<attempt, w>>
       ELSE /\ UNCHANGED <<tried, forwards, lbAttemptsTotal>>
            /\ IF i[h] + 1 < N
                 THEN /\ i' = [i EXCEPT ![h] = @ + 1]
                      /\ pc' = [pc EXCEPT ![h] = "scan"]
                      /\ UNCHANGED <<mu, lastErr, w, attempt, idx>>
                 ELSE /\ mu' = 0
                      /\ i' = [i EXCEPT ![h] = 0]
                      /\ idx' = [idx EXCEPT ![h] = -1]
                      /\ lastErr' = [lastErr EXCEPT ![h] = TRUE]
                      /\ Return(h, w[h], TRUE)
  /\ UNCHANGED <<Backends, current, cooldown, probes, ticks, started,
                 okBetween, bg, rec, reason>>

\* b.ReverseProxy.ServeHTTP(rec, r2) returns with outcome o: a retryable
\* outcome takes ServeHTTP into noteFailure, any other ends the loop.
ForwardReturns(h, o) ==
  LET b == idx[h]
      committed == WriteHeader(w[h], o.code) IN
  /\ pc[h] = "forward"
  /\ rec' = [rec EXCEPT ![h] = o.code]
  /\ IF retryable(o.dl, o.code)
       THEN /\ pc' = [pc EXCEPT ![h] = "nfLock"]
            /\ w' = [w EXCEPT ![h] = committed]
            /\ reason' = [reason EXCEPT ![h] = failureReason(o.dl, o.code)]
            /\ UNCHANGED <<idx, attempt, okBetween>>
       ELSE /\ Return(h, committed, lastErr[h])
            /\ idx' = [idx EXCEPT ![h] = -1]
            /\ UNCHANGED reason
            /\ okBetween' = [okBetween EXCEPT ![b] = @ \/ Backends[b].ConsecFailures > 0]
  /\ UNCHANGED <<Backends, current, mu, cooldown, probes, ticks, started,
                 lbAttemptsTotal, locks>>
  /\ UNCHANGED <<tried, i, lastErr, forwards>>

\* noteFailure: b.mu.Lock()
NoteFailureLock(h) ==
  /\ pc[h] = "nfLock"
  /\ canLock(bmu[idx[h]])
  /\ bmu' = [bmu EXCEPT ![idx[h]] = Lock(@)]
  /\ pc' = [pc EXCEPT ![h] = "nfHold"]
  /\ UNCHANGED <<Backends, current, mu, cooldown, probes, ticks, started,
                 lbAttemptsTotal, okBetween, bg>>
  /\ UNCHANGED <<attempt, tried, idx, i, rec, w, lastErr, forwards, reason>>

\* noteFailure, holding b.mu: the body, the deferred b.mu.Unlock(), and the
\* continue of ServeHTTP.
NoteFailureUnlock(h) ==
  LET b == idx[h] IN
  /\ pc[h] = "nfHold"
  /\ Backends' = [Backends EXCEPT ![b] = noteFailure(@)]
  /\ cooldown' = [cooldown EXCEPT ![b] =
                    IF breakerTrips(Backends[b]) THEN @ + 1 ELSE @]
  /\ bmu' = [bmu EXCEPT ![b] = Unlock(@)]
  /\ idx' = [idx EXCEPT ![h] = -1]
  /\ Continue(h, w[h])
  /\ UNCHANGED <<current, mu, probes, ticks, started, lbAttemptsTotal,
                 okBetween, bg>>
  /\ UNCHANGED <<tried, i, rec, lastErr, forwards, reason>>

\* A cooldown goroutine wakes up from its sleep: b.mu.Lock()
CooldownLock(b) ==
  /\ cooldown[b] > 0
  /\ canLock(bmu[b])
  /\ cooldown' = [cooldown EXCEPT ![b] = @ - 1]
  /\ bmu' = [bmu EXCEPT ![b] = Lock(@)]
  /\ bg' = [bg EXCEPT ![b]["cooldownOver"] = @ + 1]
  /\ UNCHANGED <<Backends, current, mu, probes, ticks, started,
                 lbAttemptsTotal, okBetween>>
  /\ UNCHANGED local

\* The cooldown goroutine, holding b.mu: Alive = true, ConsecFailures = 0,
\* b.mu.Unlock()
CooldownUnlock(b) ==
  /\ bg[b]["cooldownOver"] > 0
  /\ bg' = [bg EXCEPT ![b]["cooldownOver"] = @ - 1]
  /\ Backends' = [Backends EXCEPT ![b] = cooldownOver(@)]
  /\ okBetween' = [okBetween EXCEPT ![b] = FALSE]
  /\ bmu' = [bmu EXCEPT ![b] = Unlock(@)]
  /\ UNCHANGED <<current, mu, cooldown, probes, ticks, started, lbAttemptsTotal>>
  /\ UNCHANGED local

\* check(b): the GET returns 200 and b.IsAlive() takes the read lock.
CheckHealthy(b) ==
  /\ probes[b] > 0
  /\ canRLock(bmu[b])
  /\ probes' = [probes EXCEPT ![b] = @ - 1]
  /\ bmu' = [bmu EXCEPT ![b] = RLock(@)]
  /\ bg' = [bg EXCEPT ![b]["isAlive"] = @ + 1]
  /\ UNCHANGED <<Backends, current, mu, cooldown, ticks, started,
                 lbAttemptsTotal, okBetween>>
  /\ UNCHANGED local

\* check(b): b.IsAlive() releases the read lock and check goes on to
\* b.SetAlive(true).
CheckIsAliveReturns(b) ==
  /\ bg[b]["isAlive"] > 0
  /\ bg' = [bg EXCEPT ![b]["isAlive"] = @ - 1, ![b]["wantSetAlive"] = @ + 1]
  /\ bmu' = [bmu EXCEPT ![b] = RUnlock(@)]
  /\ UNCHANGED <<Backends, current, mu, cooldown, probes, ticks, started,
                 lbAttemptsTotal, okBetween>>
  /\ UNCHANGED local

\* check(b): b.SetAlive(true) takes the write lock.
CheckSetAliveLock(b) ==
  /\ bg[b]["wantSetAlive"] > 0
  /\ canLock(bmu[b])
  /\ bg' = [bg EXCEPT ![b]["wantSetAlive"] = @ - 1, ![b]["setAliveTrue"] = @ + 1]
  /\ bmu' = [bmu EXCEPT ![b] = Lock(@)]
  /\ UNCHANGED <<Backends, current, mu, cooldown, probes, ticks, started,
                 lbAttemptsTotal, okBetween>>
  /\ UNCHANGED local

\* check(b): the GET fails or returns another status, and b.SetAlive(false)
\* takes the write lock.
CheckUnhealthy(b) ==
  /\ probes[b] > 0
  /\ canLock(bmu[b])
  /\ probes' = [probes EXCEPT ![b] = @ - 1]
  /\ bmu' = [bmu EXCEPT ![b] = Lock(@)]
  /\ bg' = [bg EXCEPT ![b]["setAliveFalse"] = @ + 1]
  /\ UNCHANGED <<Backends, current, mu, cooldown, ticks, started,
                 lbAttemptsTotal, okBetween>>
  /\ UNCHANGED local

\* check(b), holding b.mu: the body of SetAlive(alive) and its deferred
\* b.mu.Unlock()
CheckSetAliveUnlock(b, alive) ==
  LET s == IF alive THEN "setAliveTrue" ELSE "setAliveFalse" IN
  /\ bg[b][s] > 0
  /\ bg' = [bg EXCEPT ![b][s] = @ - 1]
  /\ Backends' = [Backends EXCEPT ![b] = SetAlive(@, alive)]
  /\ okBetween' = [okBetween EXCEPT ![b] = @ /\ ~alive]
  /\ bmu' = [bmu EXCEPT ![b] = Unlock(@)]
  /\ UNCHANGED <<current, mu, cooldown, probes, ticks, started, lbAttemptsTotal>>
  /\ UNCHANGED local

\* The outcomes of a forward that take ServeHTTP into noteFailure.
Failures == {o \in Outcomes : retryable(o.dl, o.code)}

\* The health ticker fires while a cooldown goroutine is asleep.
TickDuringCooldown ==
  /\ \E b \in Pool : cooldown[b] > 0
  /\ Tick

\* The steps of the goroutines that are inside ServeHTTP, check or a cooldown,
\* every forward failing.
LockSteps ==
  \/ \E h \in Handlers : LockPool(h)
  \/ \E h \in Handlers : IsAliveRLock(h)
  \/ \E h \in Handlers : IsAliveReturns(h)
  \/ \E h \in Handlers, o \in Failures : ForwardReturns(h, o)
  \/ \E h \in Handlers : NoteFailureLock(h)
  \/ \E h \in Handlers : NoteFailureUnlock(h)
  \/ \E b \in Pool : CooldownLock(b)
  \/ \E b \in Pool : CooldownUnlock(b)
  \/ \E b \in Pool : CheckHealthy(b)
  \/ \E b \in Pool : CheckIsAliveReturns(b)
  \/ \E b \in Pool : CheckSetAliveLock(b)
  \/ \E b \in Pool : CheckUnhealthy(b)
  \/ \E b \in Pool, alive \in BOOLEAN : CheckSetAliveUnlock(b, alive)

\* Runs, lock by lock, in which every forward fails and the health ticker
\* fires while a cooldown goroutine is asleep: request handlers, check
\* goroutines and cooldown goroutines are at the locks together.
NextLocks ==
  \/ \E h \in Handlers : Accept(h)
  \/ TickDuringCooldown
  \/ LockSteps

SpecLocks == Init /\ [][NextLocks]_vars

\* ------------------------------------------------------------------ claims

\* backends that are alive / not alive in the current state
Alive(b) == Backends[b].Alive
Fails(b) == Backends[b].ConsecFailures
AllDown == \A b \in Pool : ~Alive(b)

\* The code label under which lbRequestsTotal counts the request of a handler
\* that has returned: fmt.Sprintf("%d", rec.code), read after the loop and
\* before http.Error.
lbRequestsTotalCode(h) == rec[h]

\* lb_backend_attempts_total summed over the backends
RECURSIVE attemptsUpTo(_)
attemptsUpTo(b) == IF b < 0 THEN 0 ELSE lbAttemptsTotal[b] + attemptsUpTo(b - 1)
Attempts == attemptsUpTo(N - 1)

\* C1 as stated (refuted): once noteFailure has tripped the breaker of a
\* backend, no call of nextAliveBackend returns that backend until its cooldown
\* timer has fired, i.e. no call returns a backend whose cooldown is pending.
C1_ExcludedUntilCooldown ==
  [][\A h \in Handlers, b \in Pool :
       (ScanHit(h) /\ current' = b) => cooldown[b] = 0]_vars

\* C1 amended: the step of noteFailure that starts a cooldown leaves the backend
\* not alive; a backend that is not alive becomes alive only by a cooldown
\* goroutine of that backend waking up or by a health probe of that backend
\* completing; and nextAliveBackend returns only a backend it read as alive.
\* So a tripped backend is returned by no call until its cooldown has fired or
\* a successful health probe has set it alive.
C1_ExcludedUntilCooldownOrProbe ==
  [][\A b \in Pool :
       /\ cooldown'[b] > cooldown[b] =>
            ~Backends'[b].Alive /\ Backends'[b].ConsecFailures >= MaxConsecFail
       /\ (~Alive(b) /\ Backends'[b].Alive) =>
            \/ cooldown'[b] = cooldown[b] - 1
            \/ probes'[b] = probes[b] - 1
       /\ \A h \in Handlers : (ScanHit(h) /\ current' = b) => Alive(b)]_vars

\* C1 witness: a call of nextAliveBackend has just passed over a backend that
\* the breaker took out and whose cooldown is still pending.
C1_TrippedBackendSkipped ==
  \E h \in Handlers, b \in Pool :
    /\ pc[h] = "scan" /\ current = b
    /\ ~Alive(b) /\ cooldown[b] > 0 /\ Fails(b) >= MaxConsecFail

\* C2: the step in which a cooldown goroutine of a backend wakes up leaves the
\* backend with Alive = true and ConsecFailures = 0, hence selectable, in every
\* state it can be taken from, whatever probes completed since the trip.
C2_TimedReadmission ==
  [][\A b \in Pool :
       cooldown'[b] < cooldown[b] =>
         /\ Backends'[b] = [Alive |-> TRUE, ConsecFailures |-> 0]
         /\ IsAlive(Backends'[b])]_vars

\* C2 witness: a cooldown is pending for a backend on which a health probe
\* result was applied after the trip (the probe found it healthy: it is alive
\* with a zero counter although its cooldown has not fired).
C2_ProbeBetweenTripAndTimer ==
  \E b \in Pool : cooldown[b] > 0 /\ Alive(b) /\ Fails(b) = 0 /\ ticks > 0

\* C3: with the backends staying alive and no attempt failing, the j-th
\* selection returns backend j mod N, every request is forwarded exactly once,
\* and once k * N requests have been handled every backend has received k.
C3_RoundRobin ==
  /\ current = Attempts % N
  /\ \A b \in Pool :
       lbAttemptsTotal[b] = Cardinality({j \in 1 .. Attempts : j % N = b})
  /\ \A h \in Handlers : forwards[h] <= 1 /\ (pc[h] = "done" => forwards[h] = 1)
  /\ (\A h \in Handlers : pc[h] \notin {"select", "scan"}) => Attempts = started
  /\ \A k \in 1 .. MaxRounds :
       (started = k * N /\ \A h \in Handlers : free(h)) =>
         \A b \in Pool : lbAttemptsTotal[b] = k

\* C3 witness: MaxRounds * N requests have been handled and every backend has
\* received MaxRounds of them.
C3_RoundsServed ==
  /\ started = MaxRounds * N
  /\ \A h \in Handlers : pc[h] = "done"
  /\ \A b \in Pool : lbAttemptsTotal[b] = MaxRounds

\* C4: within one request the number of forwards equals the number of distinct
\* backends forwarded to (no backend twice) and is at most MaxRetries + 1.
C4_NoRepeatWithinRequest ==
  \A h \in Handlers :
    /\ forwards[h] = Cardinality(tried[h])
    /\ forwards[h] <= MaxRetries + 1
    /\ pc[h] = "forward" => idx[h] \in tried[h]

\* C4 witness: a request is forwarding for the second time in its third
\* iteration: in between, nextAliveBackend returned a backend it had tried.
C4_SkippedThenForwarded ==
  \E h \in Handlers : pc[h] = "forward" /\ attempt[h] = 2 /\ forwards[h] = 2

\* C5: while every backend is not alive, a request that is selecting starts no
\* forward, and its own steps change no attempt counter and no backend; and a
\* request whose first selection fails ends with status 503, no forward made.
C5_FullOutage ==
  [][\A h \in Handlers :
       /\ (AllDown /\ pc[h] \in {"select", "scan"}) =>
            /\ pc'[h] # "forward"
            /\ forwards'[h] = forwards[h]
            /\ (pc'[h] # pc[h] \/ i'[h] # i[h]) =>
                 /\ lbAttemptsTotal' = lbAttemptsTotal
                 /\ Backends' = Backends
                 /\ cooldown' = cooldown
       /\ (pc[h] \in {"select", "scan"} /\ forwards[h] = 0 /\ pc'[h] = "done") =>
            /\ w'[h] = StatusServiceUnavailable
            /\ lastErr'[h]
            /\ forwards'[h] = 0
            /\ lbAttemptsTotal' = lbAttemptsTotal
            /\ Backends' = Backends
            /\ cooldown' = cooldown]_vars

\* C5 witness: with every backend not alive, a request has ended with 503 and
\* without a forward.
C5_RejectedWithoutForward ==
  \E h \in Handlers :
    /\ AllDown
    /\ pc[h] = "done" /\ lastErr[h]
    /\ forwards[h] = 0 /\ w[h] = StatusServiceUnavailable

\* C6: every iteration of nextAliveBackend moves the cursor to the next index in
\* cyclic order and reads that backend's flag; the call returns the first
\* backend it reads as alive, with the cursor on it; it makes at most N
\* iterations, and fails, with index -1, exactly when the N-th reads a backend
\* that is not alive.
C6_NextAliveBackend ==
  [][\A h \in Handlers :
       /\ ScanHit(h) =>
            /\ current' = (current + 1) % N
            /\ Backends[current'].Alive
            /\ i[h] < N
            /\ ~lastErr'[h]
            /\ pc'[h] = "forward" => idx'[h] = current'
       /\ ScanMiss(h) =>
            /\ current' = (current + 1) % N
            /\ ~Backends[current'].Alive
            /\ i[h] < N
            /\ lastErr'[h] <=> i[h] = N - 1
            /\ lastErr'[h] => idx'[h] = -1 /\ pc'[h] = "done"
            /\ ~lastErr'[h] => pc'[h] = "scan" /\ i'[h] = i[h] + 1]_vars

\* C6 witness: the first call ever made, started with the cursor at 0, has
\* returned index 2 with the cursor on it: it read backend 1 as not alive and
\* passed over it.
C6_ReturnedAfterSkip ==
  \E h \in Handlers :
    /\ started = 1 /\ attempt[h] = 0
    /\ pc[h] = "forward" /\ idx[h] = 2 /\ current = 2
    /\ ~Alive(1) /\ Alive(2)
    /\ mu = 0

\* C7 as stated (refuted by the code): a request during which nextAliveBackend
\* failed leaves the client with status 503.
C7_NoBackendGives503 ==
  \A h \in Handlers :
    (pc[h] = "done" /\ lastErr[h]) => w[h] = StatusServiceUnavailable

\* C8 as stated (refuted by the code): the status the client has is the one
\* written by the last forwarded attempt of the request.
C8_ClientGetsLastAttempt ==
  \A h \in Handlers :
    (pc[h] = "done" /\ forwards[h] > 0 /\ ~lastErr[h]) => w[h] = rec[h]

\* C9: every step that makes a backend alive, or in which a cooldown goroutine
\* wakes up or a probe completes leaving the backend alive, leaves its
\* ConsecFailures at 0.
C9_AliveResetsFailures ==
  [][\A b \in Pool :
       /\ (~Alive(b) /\ Backends'[b].Alive) => Backends'[b].ConsecFailures = 0
       /\ (probes'[b] < probes[b] /\ Backends'[b].Alive) =>
            Backends'[b].ConsecFailures = 0
       /\ cooldown'[b] < cooldown[b] =>
            Backends'[b].Alive /\ Backends'[b].ConsecFailures = 0]_vars

\* C9 witness: a backend taken out by the breaker, with ConsecFailures at the
\* threshold, has been set alive by a completed probe (its cooldown is still
\* pending) and its counter is 0.
C9_ProbeReadmitted ==
  \E b \in Pool :
    /\ Alive(b) /\ Fails(b) = 0
    /\ cooldown[b] > 0 /\ probes[b] = 0 /\ lbAttemptsTotal[b] >= MaxConsecFail

\* C10: a failed health probe leaves the backend not alive, whatever its
\* ConsecFailures, changes no ConsecFailures and starts no cooldown; and no
\* completing probe, failed or not, increases a ConsecFailures.
C10_ProbeFailure ==
  [][\A b \in Pool :
       /\ Check(b, FALSE) =>
            /\ ~Backends'[b].Alive
            /\ Backends'[b].ConsecFailures = Fails(b)
            /\ cooldown' = cooldown
       /\ probes'[b] < probes[b] =>
            /\ \A c \in Pool : Backends'[c].ConsecFailures <= Fails(c)
            /\ cooldown' = cooldown]_vars

\* C10 witness: a backend with no dispatch failure counted and no cooldown
\* pending is not alive: a failed probe took it out.
C10_DownWithZeroFailures ==
  \E b \in Pool :
    /\ ~Alive(b) /\ Fails(b) = 0
    /\ cooldown[b] = 0 /\ lbAttemptsTotal[b] = 0

C12_CountedUnderClientStatus ==
  \A h \in Handlers : pc[h] = "done" => lbRequestsTotalCode(h) = w[h]

\* the alive backends the request of handler h has not tried
aliveUntried(h) == {b \in Pool \ tried[h] : Alive(b)}

\* C13 as stated (refuted): skips consume nothing of the budget, so a request
\* whose attempts keep failing gives up (returns after a failed attempt, every
\* selection having succeeded) only once it has forwarded MaxRetries + 1 times,
\* unless fewer alive untried backends are left than forwards it may still make.
C13_SkipsAreFree ==
  \A h \in Handlers :
    (pc[h] = "done" /\ ~lastErr[h] /\ rec[h] >= 500) =>
      \/ forwards[h] = MaxRetries + 1
      \/ Cardinality(aliveUntried(h)) < MaxRetries + 1 - forwards[h]

\* C13 amended: a selection that returns a tried index forwards nothing, counts
\* no attempt in lbAttemptsTotal and touches no backend, but it uses up one
\* iteration of the loop: attempt is incremented, and in the last iteration the
\* request returns; so forwards plus skips never exceed MaxRetries + 1.
C13_SkipUsesIteration ==
  /\ [][\A h \in Handlers :
         (ScanHit(h) /\ current' \in tried[h]) =>
           /\ forwards' = forwards /\ tried' = tried
           /\ lbAttemptsTotal' = lbAttemptsTotal /\ Backends' = Backends
           /\ attempt[h] < MaxRetries =>
                pc'[h] = "select" /\ attempt'[h] = attempt[h] + 1
           /\ attempt[h] = MaxRetries => pc'[h] = "done"]_vars
  /\ [](\A h \in Handlers :
          pc[h] \in {"select", "scan", "forward"} =>
            /\ forwards[h] <= attempt[h] + 1
            /\ pc[h] \in {"select", "scan"} => forwards[h] <= attempt[h])

\* C13 witness: after one failed forward and one skip a request enters its last
\* iteration, with two alive backends it has not tried.
C13_SkipUsedIteration ==
  \E h \in Handlers :
    /\ pc[h] = "select" /\ attempt[h] = MaxRetries /\ forwards[h] = 1
    /\ Cardinality(aliveUntried(h)) = 2

\* C14 as stated (refuted by the code): no backend ever has more than one
\* cooldown goroutine sleeping.
C14_OnePendingCooldown == \A b \in Pool : cooldown[b] <= 1

\* C15 as stated (refuted by the code): when noteFailure trips the breaker of a
\* backend, the dispatch failures its ConsecFailures counts had no successful
\* dispatch to that backend between them.
C15_TripsOnConsecutiveFailures ==
  [][\A b \in Pool : cooldown'[b] > cooldown[b] => ~okBetween[b]]_vars

\* C16 as stated (refuted): a ConsecFailures increases only by noteFailure, by
\* exactly 1, and whenever the new value is MaxConsecFail the step leaves the
\* backend not alive and starts a cooldown goroutine, alive before or not.
C16_TripsWhateverLiveness ==
  [][\A b \in Pool :
       Backends'[b].ConsecFailures > Fails(b) =>
         /\ Backends'[b].ConsecFailures = Fails(b) + 1
         /\ Backends'[b].ConsecFailures = MaxConsecFail =>
              ~Backends'[b].Alive /\ cooldown'[b] = cooldown[b] + 1]_vars

\* C16 amended: a ConsecFailures increases only by exactly 1; if the new value
\* is at least MaxConsecFail and the backend was alive, the step leaves it not
\* alive and starts one cooldown goroutine; otherwise (below the threshold, or
\* the backend already not alive) the step changes neither the Alive flag nor
\* the pending cooldowns.
C16_TripsOnlyWhenAlive ==
  [][\A b \in Pool :
       Backends'[b].ConsecFailures > Fails(b) =>
         /\ Backends'[b].ConsecFailures = Fails(b) + 1
         /\ IF Fails(b) + 1 >= MaxConsecFail /\ Alive(b)
              THEN ~Backends'[b].Alive /\ cooldown'[b] = cooldown[b] + 1
              ELSE Backends'[b].Alive = Alive(b) /\ cooldown'[b] = cooldown[b]]_vars

\* C16 witness: a backend that a failed probe had marked not alive has had its
\* ConsecFailures brought to the threshold by noteFailure: it is not alive and
\* no cooldown is pending for it.
C16_AtThresholdWithoutCooldown ==
  \E b \in Pool :
    ~Alive(b) /\ Fails(b) = MaxConsecFail /\ cooldown[b] = 0 /\ probes[b] = 0

AllAlive == \A b \in Pool : Alive(b)

C19_AliveBelowThreshold ==
  \A b \in Pool :
    /\ Fails(b) >= 0
    /\ Alive(b) => Fails(b) < MaxConsecFail
    /\ Fails(b) >= MaxConsecFail => ~Alive(b)

\* C19 witness: a backend is alive one failure short of the threshold while
\* another, tripped by the breaker, is not alive with its ConsecFailures at the
\* threshold.
C19_AtAndBelowThreshold ==
  \E b \in Pool, c \in Pool :
    /\ Alive(b) /\ Fails(b) = MaxConsecFail - 1
    /\ ~Alive(c) /\ Fails(c) = MaxConsecFail /\ cooldown[c] > 0

readersOf(b) ==
  Cardinality({h \in Handlers : pc[h] = "read" /\ current = b}) + bg[b]["isAlive"]
writersOf(b) ==
  Cardinality({h \in Handlers : pc[h] = "nfHold" /\ idx[h] = b})
    + bg[b]["setAliveTrue"] + bg[b]["setAliveFalse"] + bg[b]["cooldownOver"]

\* some goroutine that holds the write lock, or any lock, of backend b can
\* take its next step, which releases it
writerCanRelease(b) ==
  \/ \E h \in Handlers : idx[h] = b /\ ENABLED NoteFailureUnlock(h)
  \/ ENABLED CooldownUnlock(b)
  \/ \E alive \in BOOLEAN : ENABLED CheckSetAliveUnlock(b, alive)
holderCanRelease(b) ==
  \/ writerCanRelease(b)
  \/ \E h \in Handlers : current = b /\ ENABLED IsAliveReturns(h)
  \/ ENABLED CheckIsAliveReturns(b)

C22_CursorAndReturnedBackend ==
  /\ [](/\ current \in 0 .. N - 1
        /\ DOMAIN Backends = 0 .. N - 1
        /\ \A h \in Handlers : idx[h] \in {-1} \cup (0 .. N - 1))
  /\ [][\A h \in Handlers :
         (pc[h] # "forward" /\ pc'[h] = "forward") =>
           /\ idx'[h] = current'
           /\ Backends[idx'[h]].Alive
           /\ Backends' = Backends]_vars

\* C22 witness: the cursor has wrapped around to index 0, whose backend was
\* returned to a handler and has been marked not alive since, the forward
\* still in flight.
C22_ReturnedThenDown ==
  \E h \in Handlers :
    pc[h] = "forward" /\ idx[h] = 0 /\ current = 0 /\ ~Alive(0)

\* the check goroutines of backend b that have not returned
inFlight(b) ==
  probes[b] + bg[b]["isAlive"] + bg[b]["wantSetAlive"]
    + bg[b]["setAliveTrue"] + bg[b]["setAliveFalse"]

\* C23 as stated (refuted by the code): no backend ever has more than one
\* check goroutine that has not returned.
C23_OneProbeInFlight == \A b \in Pool : inFlight(b) <= 1

\* C24 as stated (refuted by the code): an attempt that is counted as a
\* failure is recorded with reason "timeout" when its deadline was exceeded
\* and with reason "5xx" only when it was not.
C24_ReasonFollowsDeadline ==
  [][\A h \in Handlers : \A o \in Outcomes \cup {LateDeadline} :
       (Forward(h, o) /\ retryable(o.dl, o.code)) =>
         reason'[h] = (IF o.dl THEN "timeout" ELSE "5xx")]_vars

\* ------------------------------------------------------------- type invariant

TypeOK ==
  /\ current \in Pool
  /\ mu \in {0} \cup Handlers
  /\ \A b \in Pool : Backends[b].ConsecFailures >= 0
  /\ \A h \in Handlers : reason[h] \in {"", "timeout", "5xx"}
====
